---- MODULE Spec2Model ----
(***************************************************************************)
(* Model of mayalookassigner/commands.py: grouping scene nodes by the      *)
(* asset id embedded in their cbId attribute, building view items from the *)
(* project database, resolving looks, queue (de)serialisation, assignment  *)
(* and the cleanup of unused look containers.                              *)
(*                                                                         *)
(* Python values whose type matters are tagged records:                    *)
(*   [type |-> "NoneType"], [type |-> "str", val |-> s],                   *)
(*   [type |-> "ObjectId", val |-> s]                                      *)
(* where s is a sequence of one-character strings.                         *)
(***************************************************************************)
EXTENDS Integers, Sequences, FiniteSets, TLC

VARIABLES
    pc,         \* position of the running operation
    cbId,       \* scene: node -> value of its cbId attribute (cblib.get_id)
    arg,        \* the argument / loop variable of the running operation
    ret,        \* the value the operation returned (or accumulates)
    db,         \* project database: asset, subset and version documents
    relatives,  \* scene: node -> its children in the DAG (cmds.listRelatives)
    sets,       \* scene: objectSet node -> its members (cmds.sets query)
    containers, \* host.ls(): the loaded containers, in listing order
    log         \* calls made to collaborators (warnings, assign, remove)

vars == <<pc, cbId, arg, ret, db, relatives, sets, containers, log>>

(***************************************************************************)
(* Bounds                                                                  *)
(***************************************************************************)
MaxIdLen == 2       \* longest cbId attribute value, in characters
MaxNodes == 3       \* longest node list handed to an operation
MaxSubsets == 2     \* most subset documents in the database
MaxVersions == 2    \* most version documents, and the highest version name
MaxContainers == 2  \* most loaded containers
MaxQueue == 2       \* most items in a queue

Chars == {"a", ":"}
Names == {"n1", "n2", "n3"}         \* the scene's node names
Nodes == {<<n>> : n \in Names}      \* references to top-level nodes (long names)

RECURSIVE SeqsUpTo(_, _)
SeqsUpTo(S, n) ==
    IF n = 0 THEN {<<>>}
    ELSE LET shorter == SeqsUpTo(S, n - 1)
         IN  shorter \cup {Append(s, x) : s \in {t \in shorter : Len(t) = n - 1},
                                          x \in S}

Range(s) == {s[i] : i \in DOMAIN s}

\* the orders in which the elements of a set can be listed
Perms(S) == {f \in [1..Cardinality(S) -> S] : \A x \in S : \E i \in DOMAIN f : f[i] = x}

\* the elements of a set as a list, in some fixed order
RECURSIVE SetToSeq(_)
SetToSeq(S) ==
    IF S = {} THEN <<>>
    ELSE LET x == CHOOSE y \in S : TRUE IN <<x>> \o SetToSeq(S \ {x})

(***************************************************************************)
(* Python values                                                           *)
(***************************************************************************)
None == [type |-> "NoneType"]
Str(s) == [type |-> "str", val |-> s]
ObjectId(s) == [type |-> "ObjectId", val |-> s]
\* `value is None` / `not value` for a value that is None or a document
IsNone(value) == "type" \in DOMAIN value /\ value.type = "NoneType"

IdValues == {None} \cup {Str(s) : s \in SeqsUpTo(Chars, MaxIdLen)}

\* value.split(sep): the fields between the separators, left to right
RECURSIVE SplitAcc(_, _, _, _, _)
SplitAcc(value, sep, i, cur, out) ==
    IF i > Len(value) THEN Append(out, cur)
    ELSE IF value[i] = sep
         THEN SplitAcc(value, sep, i + 1, <<>>, Append(out, cur))
         ELSE SplitAcc(value, sep, i + 1, Append(cur, value[i]), out)

split(value, sep) == SplitAcc(value, sep, 1, <<>>, <<>>)

\* cblib.get_id(node): the cbId attribute of the node a path ends in, None
\* when it has none
get_id(node) == cbId[node[Len(node)]]

\* faulty variant: keeps the part after the last separator instead of the first
asset_id_of_last(value) == LET parts == split(value, ":") IN parts[Len(parts)]

\* value.split(":")[0]
asset_id_of(value) == split(value, ":")[1]

\* node_id_hash[asset_id].append(node) on a defaultdict(list)
dict_append(h, key, node) ==
    IF key \in DOMAIN h
    THEN [h EXCEPT ![key] = Append(@, node)]
    ELSE [k \in DOMAIN h \cup {key} |-> IF k = key THEN <<node>> ELSE h[k]]

RECURSIVE hash_loop(_, _, _)
hash_loop(nodes, i, node_id_hash) ==
    IF i > Len(nodes) THEN node_id_hash
    ELSE LET node == nodes[i]
             value == get_id(node)
         IN  IF value.type = "NoneType"
             THEN hash_loop(nodes, i + 1, node_id_hash)
             ELSE hash_loop(nodes, i + 1,
                            dict_append(node_id_hash, asset_id_of(value.val), node))

EmptyDict == [k \in {} |-> <<>>]

create_asset_id_hash(nodes) == hash_loop(nodes, 1, EmptyDict)

(***************************************************************************)
(* Values the variables hold while an operation does not use them          *)
(***************************************************************************)
NoDb == <<>>
NoScene ==
    /\ relatives = [n \in {} |-> <<>>]
    /\ sets = [n \in {} |-> <<>>]
    /\ containers = <<>>

(***************************************************************************)
(* SpecHash: create_asset_id_hash applied to every bounded node list of    *)
(* every bounded scene                                                     *)
(***************************************************************************)
InitHash ==
    /\ pc = "create_asset_id_hash"
    /\ cbId \in [Names -> IdValues]
    /\ arg \in SeqsUpTo(Nodes, MaxNodes)
    /\ ret = EmptyDict
    /\ db = NoDb
    /\ NoScene
    /\ log = <<>>

CreateAssetIdHash ==
    /\ pc = "create_asset_id_hash"
    /\ ret' = create_asset_id_hash(arg)
    /\ pc' = "hash_returned"
    /\ UNCHANGED <<cbId, arg, db, relatives, sets, containers, log>>

NextHash == CreateAssetIdHash

SpecHash == InitHash /\ [][NextHash]_vars

\* the part of a string before its first ':' (the whole string without one)
IsPrefixKey(k, s) ==
    /\ \A i \in DOMAIN k : k[i] # ":"
    /\ Len(k) <= Len(s)
    /\ \A i \in DOMAIN k : s[i] = k[i]
    /\ Len(k) < Len(s) => s[Len(k) + 1] = ":"

HasKey(n, k) == get_id(n).type = "str" /\ IsPrefixKey(k, get_id(n).val)

\* C1: the keys of create_asset_id_hash(nodes) are exactly the prefixes
\* before the first ':' of the non-null identifiers of the nodes; the list
\* of a key holds exactly the nodes with that prefix, once per occurrence
\* and in input order; nodes without an identifier are under no key.
C1_HashGroupsByPrefix ==
    pc = "hash_returned" =>
        /\ \A k \in DOMAIN ret : \E i \in DOMAIN arg : HasKey(arg[i], k)
        /\ \A i \in DOMAIN arg :
              get_id(arg[i]).type = "str" =>
                  \E k \in DOMAIN ret : HasKey(arg[i], k)
        /\ \A k \in DOMAIN ret :
              ret[k] = SelectSeq(arg, LAMBDA n : HasKey(n, k))
        /\ \A k \in DOMAIN ret : \A j \in DOMAIN ret[k] :
              get_id(ret[k][j]).type # "NoneType"

\* a list with a null-identifier node and two nodes under one key, cut at ':'
C1_Witness ==
    /\ pc = "hash_returned"
    /\ \E i \in DOMAIN arg : get_id(arg[i]).type = "NoneType"
    /\ \E k \in DOMAIN ret : Len(ret[k]) = 2
    /\ \E i \in DOMAIN arg : get_id(arg[i]).type = "str"
                              /\ \E j \in DOMAIN get_id(arg[i]).val :
                                    get_id(arg[i]).val[j] = ":"

(***************************************************************************)
(* The project database: one collection of asset, subset and version       *)
(* documents, in natural (insertion) order                                 *)
(***************************************************************************)
Digit == <<"1", "2", "3", "4", "5">>
AssetIds == {<<"a">>, <<"b">>, <<"c">>}
ProjectId == <<"p">>
SubsetId(i) == <<"s", Digit[i]>>
VersionId(i) == <<"v", Digit[i]>>
AssetName(id) == IF id = <<"a">> THEN "hero" ELSE IF id = <<"b">> THEN "tree" ELSE "rock"

AssetDoc(id) ==
    [_id |-> ObjectId(id), name |-> AssetName(id),
     parent |-> ObjectId(ProjectId), type |-> "asset"]
SubsetDoc(i, name, asset) ==
    [_id |-> ObjectId(SubsetId(i)), name |-> name,
     parent |-> ObjectId(asset), type |-> "subset"]
VersionDoc(i, name, subset) ==
    [_id |-> ObjectId(VersionId(i)), name |-> name,
     parent |-> ObjectId(SubsetId(subset)), type |-> "version"]

\* a projection keeps the named fields a document has, and always its _id
project(doc, fields) ==
    [f \in (fields \cup {"_id"}) \cap DOMAIN doc |-> doc[f]]

\* a document matches a query when it has every queried field with that value
matches(doc, query) ==
    \A f \in DOMAIN query : f \in DOMAIN doc /\ doc[f] = query[f]

\* faulty variant: sorts ascending: the lowest-named match comes first
first_match_ascending(query, byNameDescending) ==
    LET hits == {i \in DOMAIN db : matches(db[i], query)}
    IN  IF hits = {} THEN 0
        ELSE IF ~byNameDescending THEN CHOOSE i \in hits : \A j \in hits : i <= j
        ELSE CHOOSE i \in hits :
                \A j \in hits : \/ db[j].name > db[i].name
                                \/ db[j].name = db[i].name /\ j >= i

\* the index of the document find_one returns: the first match in natural
\* order, or with sort=[("name", -1)] the first match of a stable descending
\* sort by name; 0 when nothing matches
first_match(query, byNameDescending) ==
    LET hits == {i \in DOMAIN db : matches(db[i], query)}
    IN  IF hits = {} THEN 0
        ELSE IF ~byNameDescending THEN CHOOSE i \in hits : \A j \in hits : i <= j
        ELSE CHOOSE i \in hits :
                \A j \in hits : \/ db[j].name < db[i].name
                                \/ db[j].name = db[i].name /\ j >= i

\* io.find_one(query, projection=..., sort=...)
find_one(query, fields, byNameDescending) ==
    LET i == first_match(query, byNameDescending)
    IN  IF i = 0 THEN None ELSE project(db[i], fields)

LookNames == {"lookMain", "lookAlt"}
IsLookName(name) == name \in LookNames

\* cblib.list_looks(asset_id): the look subsets of the asset, as listed
list_looks(asset_id) ==
    SelectSeq(db, LAMBDA d : /\ d.type = "subset"
                             /\ d.parent = asset_id
                             /\ IsLookName(d.name))

fetch_looks(asset) ==
    LET asset_name == asset.name
        subsets == list_looks(asset._id)
        version(subset) ==
            find_one([type |-> "version", parent |-> subset._id],
                     {"name", "parent"}, TRUE)
    IN  [i \in DOMAIN subsets |->
            [asset_name |-> asset_name,
             subset |-> subsets[i].name,
             version |-> version(subsets[i])]]

(***************************************************************************)
(* SpecLooks: fetch_looks on every asset of every bounded database         *)
(***************************************************************************)
SubsetNames == LookNames \cup {"modelMain"}
LookAssets == {<<"a">>, <<"b">>}

SubsetLists ==
    UNION {{[i \in 1..n |-> SubsetDoc(i, f[i][1], f[i][2])] :
              f \in [1..n -> SubsetNames \X LookAssets]} : n \in 0..MaxSubsets}
\* version documents in every insertion order: ties in the name fall
\* either way
VersionLists ==
    UNION {{[i \in 1..n |-> VersionDoc(p[i], f[i][1], f[i][2])] :
              f \in [1..n -> (1..MaxVersions) \X (1..MaxSubsets)],
              p \in Perms(1..n)} :
           n \in 0..MaxVersions}

InitLooks ==
    /\ pc = "idle"
    /\ cbId = [n \in Names |-> None]
    /\ arg = <<>>
    /\ ret = <<>>
    /\ \E S \in SubsetLists, V \in VersionLists :
          db = <<AssetDoc(<<"a">>), AssetDoc(<<"b">>)>> \o S \o V
    /\ NoScene
    /\ log = <<>>

FetchLooks ==
    /\ pc = "idle"
    /\ \E id \in LookAssets :
          /\ arg' = project(AssetDoc(id), {"name"})
          /\ ret' = fetch_looks(arg')
          /\ pc' = "fetch_looks_returned"
          /\ UNCHANGED <<cbId, db, relatives, sets, containers, log>>

NextLooks == FetchLooks

SpecLooks == InitLooks /\ [][NextLooks]_vars

\* the database's look subsets of an asset, by position in the collection
LookSubsetsAt(asset_id) ==
    {i \in DOMAIN db : /\ db[i].type = "subset"
                       /\ db[i].parent = asset_id
                       /\ db[i].name \in {"lookMain", "lookAlt"}}
VersionsAt(subset_id) ==
    {i \in DOMAIN db : db[i].type = "version" /\ db[i].parent = subset_id}

\* C7: fetch_looks(asset) returns one record per look subset of the asset,
\* in listing order, each with the asset's name, the subset's name and the
\* highest-named version document of that subset (its _id, name and parent),
\* or null when the subset has no version.
C7_OneRecordPerLookSubset ==
    pc = "fetch_looks_returned" =>
        LET at == LookSubsetsAt(arg._id)
        IN  /\ Len(ret) = Cardinality(at)
            /\ \A k \in DOMAIN ret :
                  \E i \in at :
                     /\ Cardinality({j \in at : j < i}) = k - 1
                     /\ ret[k].asset_name = arg.name
                     /\ ret[k].subset = db[i].name
                     /\ LET vs == VersionsAt(db[i]._id)
                        IN  IF vs = {} THEN ret[k].version.type = "NoneType"
                            ELSE \E v \in vs :
                                    /\ \A w \in vs : db[w].name <= db[v].name
                                    /\ DOMAIN ret[k].version = {"_id", "name", "parent"}
                                    /\ ret[k].version._id = db[v]._id
                                    /\ ret[k].version.name = db[v].name
                                    /\ ret[k].version.parent = db[v].parent

\* two look subsets of one asset, one without a version, one with two
\* versions of which the later-inserted is not the latest
C7_Witness ==
    /\ pc = "fetch_looks_returned"
    /\ Len(ret) = 2
    /\ "type" \in DOMAIN ret[1].version
    /\ "name" \in DOMAIN ret[2].version
    /\ ret[2].version.name = 2
    /\ \E i \in DOMAIN db : /\ db[i].type = "version"
                            /\ db[i].name = 1
                            /\ db[i].parent = ObjectId(SubsetId(2))
                            /\ db[i]._id = ObjectId(VersionId(2))

(***************************************************************************)
(* View items                                                              *)
(***************************************************************************)
\* get_namespace_from_node(node): cmds.ls(node, showNamespace=True)[1]
get_namespace_from_node(node) ==
    IF node[Len(node)] = "n3" THEN "nsB" ELSE "nsA"

Warning(what, about) == [call |-> "log.warning", what |-> what, about |-> about]

\* faulty variant: aborts the batch at the first id without a document
RECURSIVE items_loop_aborting(_, _, _, _)
items_loop_aborting(id_hashes, keys, i, out) ==
    IF i > Len(keys) THEN out
    ELSE LET _id == keys[i]
             nodes == id_hashes[_id]
             document == find_one([_id |-> ObjectId(_id)], {"name"}, FALSE)
         IN  IF IsNone(document) THEN [items |-> <<>>, log |-> out.log]
             ELSE items_loop_aborting(id_hashes, keys, i + 1,
                     [items |-> Append(out.items,
                                       [asset |-> <<get_namespace_from_node(nodes[1]),
                                                    " : ", document.name>>,
                                        asset_name |-> document.name,
                                        document |-> document,
                                        looks |-> fetch_looks(document),
                                        _id |-> _id,
                                        nodes |-> nodes]),
                      log |-> out.log])

\* for _id, nodes in id_hashes.items(): ... ; out is the list built so far
\* and the warnings logged so far
RECURSIVE items_loop(_, _, _, _)
items_loop(id_hashes, keys, i, out) ==
    IF i > Len(keys) THEN out
    ELSE LET _id == keys[i]
             nodes == id_hashes[_id]
             document == find_one([_id |-> ObjectId(_id)], {"name"}, FALSE)
         IN  IF IsNone(document)
             THEN items_loop(id_hashes, keys, i + 1,
                     [items |-> out.items,
                      log |-> out.log \o <<Warning("Id not found", _id),
                                           Warning("Nodes", nodes)>>])
             ELSE items_loop(id_hashes, keys, i + 1,
                     [items |-> Append(out.items,
                                       [asset |-> <<get_namespace_from_node(nodes[1]),
                                                    " : ", document.name>>,
                                        asset_name |-> document.name,
                                        document |-> document,
                                        looks |-> fetch_looks(document),
                                        _id |-> _id,
                                        nodes |-> nodes]),
                      log |-> out.log])

\* create_items_from_selection(content); order is the order in which the
\* dictionaries of this run iterate their keys
create_items_from_selection(content, order) ==
    LET id_hashes == create_asset_id_hash(content)
    IN  IF DOMAIN id_hashes = {} THEN [items |-> <<>>, log |-> <<>>]
        ELSE items_loop(id_hashes,
                        SelectSeq(order, LAMBDA k : k \in DOMAIN id_hashes),
                        1, [items |-> <<>>, log |-> <<>>])

(***************************************************************************)
(* Queue (de)serialisation and assignment                                  *)
(***************************************************************************)
\* how a call ends: with a value, or with an exception
Return(value) == [returned |-> value]
Raise(error) == [raised |-> error]
Raised(outcome) == "raised" \in DOMAIN outcome

\* str(value) of an id field
str(value) ==
    IF value.type = "NoneType" THEN Str(<<"N", "o", "n", "e">>) ELSE Str(value.val)

\* new_item = deepcopy(item) with document _id and parent made strings;
\* item["document"]["parent"] raises KeyError when the document has none
out_item(item) ==
    IF "parent" \notin DOMAIN item.document THEN Raise("KeyError")
    ELSE [item EXCEPT !.document =
             [f \in DOMAIN item.document |->
                 IF f \in {"_id", "parent"} THEN str(item.document[f])
                 ELSE item.document[f]]]

create_queue_out_data(queue_items) ==
    LET items == [i \in DOMAIN queue_items |-> out_item(queue_items[i])]
    IN  IF \E i \in DOMAIN items : Raised(items[i])
        THEN items[CHOOSE i \in DOMAIN items :
                      Raised(items[i]) /\ \A j \in 1..(i - 1) : ~Raised(items[j])]
        ELSE Return(items)

\* new_item = deepcopy(item) with document _id and parent made ObjectIds
in_item(item) ==
    IF "parent" \notin DOMAIN item.document THEN Raise("KeyError")
    ELSE [item EXCEPT !.document =
             [f \in DOMAIN item.document |->
                 IF f \in {"_id", "parent"} THEN ObjectId(item.document[f].val)
                 ELSE item.document[f]]]

create_queue_in_data(queue_items) ==
    LET items == [i \in DOMAIN queue_items |-> in_item(queue_items[i])]
    IN  IF \E i \in DOMAIN items : Raised(items[i])
        THEN items[CHOOSE i \in DOMAIN items :
                      Raised(items[i]) /\ \A j \in 1..(i - 1) : ~Raised(items[j])]
        ELSE Return(items)

\* the id-typed values of an item: the document's and the look versions'
IdFields == {"_id", "parent"}
IsObjectId(value) == "type" \in DOMAIN value /\ value.type = "ObjectId"
document_has_ObjectId(document) ==
    \E f \in DOMAIN document \cap IdFields : IsObjectId(document[f])
item_has_ObjectId(item) ==
    \/ document_has_ObjectId(item.document)
    \/ \E i \in DOMAIN item.looks :
          /\ ~IsNone(item.looks[i].version)
          /\ document_has_ObjectId(item.looks[i].version)

\* JSON text of an id-typed value: a string or null
json_value(value) ==
    IF value.type = "NoneType" THEN [json |-> "null"]
    ELSE [json |-> "string", chars |-> value.val]
python_value(json) ==
    IF json.json = "null" THEN None ELSE Str(json.chars)

json_document(document) ==
    [f \in DOMAIN document |->
        IF f \in IdFields THEN json_value(document[f]) ELSE document[f]]
python_document(document) ==
    [f \in DOMAIN document |->
        IF f \in IdFields THEN python_value(document[f]) ELSE document[f]]

json_looks(looks) ==
    [i \in DOMAIN looks |->
        [looks[i] EXCEPT !.version =
            IF IsNone(@) THEN [json |-> "null"] ELSE json_document(@)]]
python_looks(looks) ==
    [i \in DOMAIN looks |->
        [looks[i] EXCEPT !.version =
            IF "json" \in DOMAIN @ THEN None ELSE python_document(@)]]

\* json.dump(items, fp): TypeError on a value that is no JSON type
json_dump(items) ==
    IF \E i \in DOMAIN items : item_has_ObjectId(items[i]) THEN Raise("TypeError")
    ELSE Return([i \in DOMAIN items |->
                    [items[i] EXCEPT !.document = json_document(@),
                                     !.looks = json_looks(@)]])

\* json.load(fp) of a saved queue
json_load(text) ==
    [i \in DOMAIN text |->
        [text[i] EXCEPT !.document = python_document(@), !.looks = python_looks(@)]]

Assign(nodes, version_id) ==
    [call |-> "assign_look_by_version", nodes |-> nodes, version |-> version_id]

\* faulty variant: asserts nothing
process_queued_item_unchecked(entry) ==
    LET nodes == IF "nodes" \in DOMAIN entry THEN entry.nodes ELSE <<>>
    IN  IF "version" \notin DOMAIN entry
        THEN [result |-> Raise("KeyError"), log |-> <<>>]
        ELSE IF IsNone(entry.version)
        THEN [result |-> Raise("TypeError"), log |-> <<>>]
        ELSE [result |-> Return(None), log |-> <<Assign(nodes, entry.version._id)>>]

\* process_queued_item(entry): the result and the collaborator calls made
process_queued_item(entry) ==
    LET nodes == IF "nodes" \in DOMAIN entry THEN entry.nodes ELSE <<>>
    IN  IF nodes = <<>>
        THEN [result |-> Raise("AssertionError"), log |-> <<>>]
        ELSE IF "version" \notin DOMAIN entry
        THEN [result |-> Raise("KeyError"), log |-> <<>>]
        ELSE IF IsNone(entry.version)
        THEN [result |-> Raise("TypeError"), log |-> <<>>]
        ELSE [result |-> Return(None), log |-> <<Assign(nodes, entry.version._id)>>]

(***************************************************************************)
(* Unused look containers                                                  *)
(***************************************************************************)
\* cmds.ls(members, type="objectSet"): the members that are object sets
is_objectSet(node) == node[Len(node)] \in DOMAIN sets
ls_objectSets(members) == SelectSeq(members, is_objectSet)

\* faulty variant: takes a look for used only when all its sets are used
RECURSIVE all_look_sets_used(_, _)
all_look_sets_used(look_sets, i) ==
    IF i > Len(look_sets) THEN Len(look_sets) > 0
    ELSE IF sets[look_sets[i][Len(look_sets[i])]] = <<>> THEN FALSE
    ELSE all_look_sets_used(look_sets, i + 1)

\* for look_set in look_sets: if cmds.sets(look_set, query=True): break
\* TRUE when the loop breaks, FALSE when it runs into its else branch
RECURSIVE some_look_set_used(_, _)
some_look_set_used(look_sets, i) ==
    IF i > Len(look_sets) THEN FALSE
    ELSE IF sets[look_sets[i][Len(look_sets[i])]] # <<>> THEN TRUE
    ELSE some_look_set_used(look_sets, i + 1)

\* the list `unused` after the first loop
unused_looks ==
    SelectSeq(containers,
              LAMBDA container :
                 /\ container.loader = "LookLoader"
                 /\ LET members == sets[container.objectName]
                        look_sets == ls_objectSets(members)
                    IN  ~some_look_set_used(look_sets, 1))

Remove(container) == [call |-> "api.remove", container |-> container]

\* for container in unused: log.warning(...); api.remove(container)
RECURSIVE removal_calls(_, _)
removal_calls(unused, i) ==
    IF i > Len(unused) THEN <<>>
    ELSE <<Warning("Removing unused look container", unused[i].objectName),
           Remove(unused[i])>> \o removal_calls(unused, i + 1)

(***************************************************************************)
(* SpecItems: create_items_from_selection on every bounded content list,   *)
(* with every subset of the asset ids registered in the database           *)
(***************************************************************************)
ItemIdValues ==
    {None, Str(<<"a", ":", "x">>), Str(<<"b", ":", "x">>), Str(<<"c">>)}

\* look subsets and versions of asset "a"
LooksFamily ==
    { <<>>,
      <<SubsetDoc(1, "lookMain", <<"a">>)>>,
      <<SubsetDoc(1, "lookMain", <<"a">>), VersionDoc(1, 1, 1)>> }

AssetLists ==
    { SelectSeq(<<AssetDoc(<<"a">>), AssetDoc(<<"b">>), AssetDoc(<<"c">>)>>,
                LAMBDA d : d._id.val \in A) : A \in SUBSET AssetIds }

InitItems ==
    /\ pc = "idle"
    /\ cbId \in [Names -> ItemIdValues]
    /\ arg = <<>>
    /\ ret = <<>>
    /\ \E A \in AssetLists, L \in LooksFamily : db = A \o L
    /\ NoScene
    /\ log = <<>>

CreateItemsFromSelection ==
    /\ pc = "idle"
    /\ \E content \in SeqsUpTo(Nodes, MaxNodes), order \in Perms(AssetIds) :
          LET out == create_items_from_selection(content, order)
          IN  /\ arg' = content
              /\ ret' = out.items
              /\ log' = out.log
              /\ pc' = "items_returned"
              /\ UNCHANGED <<cbId, db, relatives, sets, containers>>

\* the items just built are queued and exported with create_queue_out_data
ExportItems ==
    /\ pc = "items_returned"
    /\ LET out == create_queue_out_data(ret)
       IN  /\ arg' = ret
           /\ ret' = IF Raised(out) THEN out ELSE out.returned
           /\ pc' = IF Raised(out) THEN "export_raised" ELSE "export_returned"
    /\ UNCHANGED <<cbId, db, relatives, sets, containers, log>>

NextItems == CreateItemsFromSelection \/ ExportItems

SpecItems == InitItems /\ [][NextItems]_vars

\* the asset ids of a content list: the part before ':' of each identifier
GroupIds(content) ==
    {k \in AssetIds : \E i \in DOMAIN content : HasKey(content[i], k)}
GroupNodes(content, k) == SelectSeq(content, LAMBDA n : HasKey(n, k))
HasDocument(k) == \E i \in DOMAIN db : db[i]._id = ObjectId(k)

\* C2: create_items_from_selection(content) returns exactly one item for each
\* asset-id group whose id has a document and none for a group without a
\* document; a missing document never aborts the call, and every item holds
\* the id and the full node list of its group.
C2_OneItemPerKnownGroup ==
    pc = "items_returned" =>
        /\ \A k \in GroupIds(arg) :
              Cardinality({i \in DOMAIN ret : ret[i]._id = k})
                  = IF HasDocument(k) THEN 1 ELSE 0
        /\ \A i \in DOMAIN ret :
              /\ ret[i]._id \in GroupIds(arg)
              /\ ret[i].nodes = GroupNodes(arg, ret[i]._id)

\* two known asset ids and one unknown id: two items
C2_Witness ==
    /\ pc = "items_returned"
    /\ Cardinality(GroupIds(arg)) = 3
    /\ Cardinality({k \in GroupIds(arg) : HasDocument(k)}) = 2
    /\ Len(ret) = 2
    /\ Len(log) > 0

\* C4: every queue of items built by create_items_from_selection is exported
\* by create_queue_out_data without an error, and the exported items hold no
\* database id, in the document or in the look version records.
C4_ItemsExportable ==
    /\ pc # "export_raised"
    /\ pc = "export_returned" => \A i \in DOMAIN ret : ~item_has_ObjectId(ret[i])

(***************************************************************************)
(* Selection and containers                                                *)
(***************************************************************************)
\* the full paths of the children of one node
children_of(node) ==
    LET kids == relatives[node[Len(node)]]
    IN  [i \in DOMAIN kids |-> Append(node, kids[i])]

\* cmds.listRelatives(nodes, fullPath=True): the children of each node of
\* the list, empty (None) when there are none
RECURSIVE listRelatives(_)
listRelatives(nodes) ==
    IF nodes = <<>> THEN <<>>
    ELSE children_of(Head(nodes)) \o listRelatives(Tail(nodes))

\* while True: nodes = listRelatives(nodes); extend result or return it
RECURSIVE descend_loop(_, _)
descend_loop(nodes, result) ==
    LET next == listRelatives(nodes)
    IN  IF next # <<>> THEN descend_loop(next, result \o next) ELSE result

list_descendents(nodes) == descend_loop(nodes, <<>>)

\* faulty variant: hands selection + hierarchy on without removing duplicates
selected_nodes_with_duplicates(selection) ==
    selection \o list_descendents(selection)

\* nodes = list(set(selection + hierarchy))
selected_nodes(selection) ==
    SetToSeq(Range(selection \o list_descendents(selection)))

get_items_from_selection(selection, order) ==
    create_items_from_selection(selected_nodes(selection), order)

\* faulty variant: does not skip the look containers
RECURSIVE assets_loop_all(_, _, _)
assets_loop_all(i, order, out) ==
    IF i > Len(containers) THEN out
    ELSE LET view == create_items_from_selection(sets[containers[i].objectName], order)
         IN  assets_loop_all(i + 1, order,
                             [items |-> out.items \o view.items,
                              log |-> out.log \o view.log])

\* faulty variant: keeps one item per asset id over all containers
RECURSIVE assets_loop_unique(_, _, _)
assets_loop_unique(i, order, out) ==
    IF i > Len(containers) THEN out
    ELSE LET container == containers[i]
         IN  IF container.loader = "LookLoader"
             THEN assets_loop_unique(i + 1, order, out)
             ELSE LET view == create_items_from_selection(sets[container.objectName], order)
                      fresh == SelectSeq(view.items,
                                  LAMBDA it : \A j \in DOMAIN out.items :
                                                 out.items[j]._id # it._id)
                  IN  assets_loop_unique(i + 1, order,
                                         [items |-> out.items \o fresh,
                                          log |-> out.log \o view.log])

\* for container in host.ls(): ...
RECURSIVE assets_loop(_, _, _)
assets_loop(i, order, out) ==
    IF i > Len(containers) THEN out
    ELSE LET container == containers[i]
         IN  IF container.loader = "LookLoader"
             THEN assets_loop(i + 1, order, out)
             ELSE LET container_name == container.objectName
                      content == sets[container_name]
                      view == create_items_from_selection(content, order)
                  IN  IF view.items = <<>>
                      THEN assets_loop(i + 1, order,
                                       [items |-> out.items,
                                        log |-> out.log \o view.log])
                      ELSE assets_loop(i + 1, order,
                                       [items |-> out.items \o view.items,
                                        log |-> out.log \o view.log])

get_all_assets(order) == assets_loop(1, order, [items |-> <<>>, log |-> <<>>])

(***************************************************************************)
(* SpecAssets: get_all_assets over every bounded list of containers, and   *)
(* get_items_from_selection over every selection of an instanced hierarchy *)
(***************************************************************************)
ContainerNames == <<"c1", "c2", "c3", "c4">>
Loaders == {"LookLoader", "ModelLoader"}
SceneIdValues == {None, Str(<<"a", ":", "x">>), Str(<<"b", ":", "x">>)}
SceneKeys == {<<"a">>, <<"b">>}
MemberLists == {SetToSeq(M) : M \in (SUBSET Nodes) \ {{}}}

\* n3 is instanced under n1 and under n2
InstancedScene ==
    [n \in Names |-> IF n = "n1" THEN <<"n2", "n3">>
                     ELSE IF n = "n2" THEN <<"n3">> ELSE <<>>]
ScenePaths ==
    {<<"n1">>, <<"n1", "n2">>, <<"n1", "n3">>, <<"n1", "n2", "n3">>}

SceneDbs ==
    {A \o <<SubsetDoc(1, "lookMain", <<"a">>), VersionDoc(1, 1, 1)>> :
        A \in {<<AssetDoc(<<"a">>)>>, <<AssetDoc(<<"a">>), AssetDoc(<<"b">>)>>}}

\* a call of get_all_assets in a scene with up to MaxContainers containers
InitAllAssets ==
    /\ pc = "get_all_assets"
    /\ arg = <<>>
    /\ relatives = [n \in Names |-> <<>>]
    /\ \E n \in 0..MaxContainers :
          \E loader \in [1..n -> Loaders], members \in [1..n -> MemberLists] :
             /\ containers = [i \in 1..n |-> [objectName |-> ContainerNames[i],
                                              loader |-> loader[i]]]
             /\ sets = [c \in {ContainerNames[i] : i \in 1..n} |->
                          members[CHOOSE i \in 1..n : ContainerNames[i] = c]]

\* a call of get_items_from_selection with some nodes of the instanced
\* hierarchy selected (arg is cmds.ls(selection=True, long=True))
InitSelection ==
    /\ pc = "get_items_from_selection"
    /\ arg \in {SetToSeq(picked) : picked \in SUBSET ScenePaths}
    /\ relatives = InstancedScene
    /\ sets = [n \in {} |-> <<>>]
    /\ containers = <<>>

InitAssets ==
    /\ cbId \in [Names -> SceneIdValues]
    /\ db \in SceneDbs
    /\ ret = <<>>
    /\ log = <<>>
    /\ InitAllAssets \/ InitSelection

GetAllAssets ==
    /\ pc = "get_all_assets"
    /\ \E order \in Perms(SceneKeys) :
          LET out == get_all_assets(order)
          IN  /\ ret' = out.items
              /\ log' = out.log
              /\ pc' = "assets_returned"
              /\ UNCHANGED <<cbId, arg, db, relatives, sets, containers>>

GetItemsFromSelection ==
    /\ pc = "get_items_from_selection"
    /\ \E order \in Perms(SceneKeys) :
          LET out == get_items_from_selection(arg, order)
          IN  /\ ret' = out.items
              /\ log' = out.log
              /\ pc' = "selection_returned"
              /\ UNCHANGED <<cbId, arg, db, relatives, sets, containers>>

NextAssets == GetAllAssets \/ GetItemsFromSelection

SpecAssets == InitAssets /\ [][NextAssets]_vars

NoTwoItemsShareId ==
    \A i, j \in DOMAIN ret : i # j => ret[i]._id # ret[j]._id

\* the containers get_all_assets reads: those not loaded by the look loader
AssetContainers == {i \in DOMAIN containers : containers[i].loader # "LookLoader"}
Members(i) == Range(sets[containers[i].objectName])
Holds(i, k) == \E n \in Members(i) : HasKey(n, k)

\* C8 as stated: no two items of one result of get_all_assets or of
\* get_items_from_selection have the same _id.
C8_Original ==
    pc \in {"assets_returned", "selection_returned"} => NoTwoItemsShareId

\* C8 amended: no two items of one result of get_items_from_selection have
\* the same _id; get_all_assets returns, for each asset id, one item per
\* non-look container holding a node of that asset when the id has a
\* document (none otherwise), so no two items built from the same
\* container share an _id.
C8_OneItemPerIdPerContainer ==
    /\ pc = "selection_returned" => NoTwoItemsShareId
    /\ pc = "assets_returned" =>
          \A k \in SceneKeys :
             Cardinality({i \in DOMAIN ret : ret[i]._id = k})
                 = IF HasDocument(k)
                   THEN Cardinality({c \in AssetContainers : Holds(c, k)})
                   ELSE 0

\* two model containers hold nodes of the same registered asset
C8_Witness ==
    /\ pc = "assets_returned"
    /\ Len(ret) >= 2
    /\ \E c, d \in AssetContainers :
          c # d /\ Holds(c, <<"a">>) /\ Holds(d, <<"a">>)

\* C9: every node of every item get_all_assets returns is a member of a
\* container whose loader is not the look loader, and every member of such
\* a container whose asset id has a document is a node of a returned item
\* of that id.
C9_LookContainersSkipped ==
    pc = "assets_returned" =>
        /\ \A i \in DOMAIN ret : \A n \in Range(ret[i].nodes) :
              \E c \in AssetContainers : n \in Members(c)
        /\ \A c \in AssetContainers : \A n \in Members(c) :
              \A k \in SceneKeys :
                 HasKey(n, k) /\ HasDocument(k) =>
                    \E i \in DOMAIN ret : ret[i]._id = k /\ n \in Range(ret[i].nodes)

\* a look container with a registered asset's node beside a model container
C9_Witness ==
    /\ pc = "assets_returned"
    /\ Len(ret) = 1
    /\ \E c \in DOMAIN containers :
          /\ containers[c].loader = "LookLoader"
          /\ \E n \in Members(c) : HasKey(n, <<"a">>)
                                   /\ \A d \in AssetContainers : n \notin Members(d)
    /\ AssetContainers # {}

(***************************************************************************)
(* SpecDescend: get_items_from_selection step by step, one action per      *)
(* iteration of the loop of list_descendents, over every hierarchy on the  *)
(* scene's names in which a node's children have later names               *)
(***************************************************************************)
Later(n) == IF n = "n1" THEN {"n2", "n3"} ELSE IF n = "n2" THEN {"n3"} ELSE {}

Hierarchies ==
    {[n \in Names |-> SetToSeq(kids[n])] :
        kids \in {f \in [Names -> SUBSET Names] : \A n \in Names : f[n] \subseteq Later(n)}}

IsChild(h, c, n) == \E i \in DOMAIN h[n] : h[n][i] = c
IsRoot(h, n) == \A m \in Names : ~IsChild(h, n, m)

\* the long names of a hierarchy: the paths from a root along its edges
FullPaths(h) ==
    {p \in SeqsUpTo(Names, Cardinality(Names)) :
        /\ p # <<>>
        /\ IsRoot(h, p[1])
        /\ \A i \in 1..(Len(p) - 1) : IsChild(h, p[i + 1], p[i])}

InitDescend ==
    /\ pc = "list_descendents"
    /\ cbId = [n \in Names |-> IF n = "n2" THEN None
                               ELSE IF n = "n1" THEN Str(<<"a", ":", "x">>)
                               ELSE Str(<<"b", ":", "x">>)]
    /\ db \in SceneDbs
    /\ relatives \in Hierarchies
    /\ \E selection \in SeqsUpTo(FullPaths(relatives), MaxNodes) :
          arg = [selection |-> selection, nodes |-> selection, hierarchy |-> <<>>]
    /\ ret = <<>>
    /\ sets = [n \in {} |-> <<>>]
    /\ containers = <<>>
    /\ log = <<>>

\* one iteration of the loop of list_descendents
ListRelativesStep ==
    /\ pc = "list_descendents"
    /\ LET nodes == listRelatives(arg.nodes)
       IN  \/ /\ nodes # <<>>
              /\ ret' = ret \o nodes
              /\ arg' = [arg EXCEPT !.nodes = nodes]
              /\ pc' = pc
           \/ /\ nodes = <<>>
              /\ pc' = "descendents_returned"
              /\ UNCHANGED <<arg, ret>>
    /\ UNCHANGED <<cbId, db, relatives, sets, containers, log>>

\* the rest of get_items_from_selection, with hierarchy = ret
BuildItems ==
    /\ pc = "descendents_returned"
    /\ \E order \in Perms(SceneKeys) :
          LET nodes == selected_nodes(arg.selection)
              out == create_items_from_selection(nodes, order)
          IN  /\ arg' = [arg EXCEPT !.nodes = nodes, !.hierarchy = ret]
              /\ ret' = out.items
              /\ log' = out.log
              /\ pc' = "selection_returned"
    /\ UNCHANGED <<cbId, db, relatives, sets, containers>>

NextDescend == ListRelativesStep \/ BuildItems

\* the loop runs on the caller's thread: an iteration that can run does run
SpecDescend == InitDescend /\ [][NextDescend]_vars /\ WF_vars(ListRelativesStep)

IsProperPrefix(s, p) == Len(s) < Len(p) /\ SubSeq(p, 1, Len(s)) = s

\* the paths strictly below the start nodes
Descendants(start) ==
    {p \in SeqsUpTo(Names, Cardinality(Names)) :
        \E i \in DOMAIN start :
           /\ IsProperPrefix(start[i], p)
           /\ \A j \in Len(start[i])..(Len(p) - 1) : IsChild(relatives, p[j + 1], p[j])}

C10_Safety ==
    /\ pc = "descendents_returned" => Range(ret) = Descendants(arg.selection)
    /\ pc = "selection_returned" =>
          /\ Range(arg.hierarchy) = Descendants(arg.selection)
          /\ Range(arg.nodes) = Range(arg.selection) \cup Descendants(arg.selection)
          /\ \A i, j \in DOMAIN arg.nodes : i # j => arg.nodes[i] # arg.nodes[j]

\* C10: on a finite acyclic hierarchy list_descendents terminates for every
\* list of start nodes (the loop ends at the first frontier without
\* children), its result holds every proper descendant path of the start
\* nodes and nothing else, and get_items_from_selection hands each selected
\* or descendant node to item construction exactly once.
C10_DescendantsTerminateAndCover ==
    /\ []C10_Safety
    /\ <>(pc = "descendents_returned")

\* an instanced node reached along two paths, below a start node that is
\* itself below another start node
C10_Witness ==
    /\ pc = "selection_returned"
    /\ <<"n1", "n3">> \in Range(arg.nodes)
    /\ <<"n1", "n2", "n3">> \in Range(arg.nodes)
    /\ Len(arg.selection) = 2
    /\ Len(arg.nodes) = 4
    /\ Len(ret) = 2

(***************************************************************************)
(* SpecQueue: a queue of up to MaxQueue items, exported with               *)
(* create_queue_out_data, written and read back as JSON and imported with  *)
(* create_queue_in_data; and process_queued_item on every bounded entry    *)
(***************************************************************************)
NodePrefixes == {SubSeq(<<<<"n1">>, <<"n2">>, <<"n3">>, <<"n1", "n2">>>>, 1, n) :
                    n \in 0..MaxNodes}

\* the version field of a look record: null, or the document fetch_looks finds
VersionValues == {None, project(VersionDoc(1, 1, 1), {"name", "parent"})}
LookLists ==
    {<<>>} \cup {<<[asset_name |-> "hero", subset |-> "lookMain", version |-> v]>> :
                    v \in VersionValues}

\* items as create_items_from_selection builds them, on documents that hold
\* their _id and their parent as database ids
QueueItems ==
    {[asset |-> <<"nsA", " : ", AssetName(id)>>,
      asset_name |-> AssetName(id),
      document |-> project(AssetDoc(id), {"name", "parent"}),
      looks |-> looks,
      _id |-> id,
      nodes |-> nodes] :
        id \in {<<"a">>, <<"b">>}, looks \in LookLists, nodes \in NodePrefixes \ {<<>>}}

\* the entries handed to process_queued_item: with or without nodes, with
\* the version of a look record
QueueEntries ==
    {[version |-> v] : v \in VersionValues}
        \cup {[nodes |-> nodes, version |-> v] : nodes \in NodePrefixes, v \in VersionValues}

InitQueue ==
    /\ pc = "queue"
    /\ cbId = [n \in Names |-> None]
    /\ arg \in SeqsUpTo(QueueItems, MaxQueue)
    /\ ret = <<>>
    /\ db = NoDb
    /\ NoScene
    /\ log = <<>>

CreateQueueOutData ==
    /\ pc = "queue"
    /\ LET out == create_queue_out_data(arg)
       IN  /\ ret' = IF Raised(out) THEN out ELSE out.returned
           /\ pc' = IF Raised(out) THEN "raised" ELSE "queue_out_returned"
    /\ UNCHANGED <<cbId, arg, db, relatives, sets, containers, log>>

\* save_to_json(filepath, items)
SaveToJson ==
    /\ pc = "queue_out_returned"
    /\ LET out == json_dump(ret)
       IN  /\ ret' = IF Raised(out) THEN out ELSE out.returned
           /\ pc' = IF Raised(out) THEN "raised" ELSE "saved"
           /\ log' = IF Raised(out) THEN <<"Writing queue file ...">>
                     ELSE <<"Writing queue file ...", "Successfully written file">>
    /\ UNCHANGED <<cbId, arg, db, relatives, sets, containers>>

LoadJson ==
    /\ pc = "saved"
    /\ ret' = json_load(ret)
    /\ pc' = "loaded"
    /\ UNCHANGED <<cbId, arg, db, relatives, sets, containers, log>>

CreateQueueInData ==
    /\ pc = "loaded"
    /\ LET out == create_queue_in_data(ret)
       IN  /\ ret' = IF Raised(out) THEN out ELSE out.returned
           /\ pc' = IF Raised(out) THEN "raised" ELSE "queue_in_returned"
    /\ UNCHANGED <<cbId, arg, db, relatives, sets, containers, log>>

ProcessQueuedItem ==
    /\ pc = "queue"
    /\ \E entry \in QueueEntries :
          LET out == process_queued_item(entry)
          IN  /\ arg' = entry
              /\ ret' = IF Raised(out.result) THEN out.result ELSE out.result.returned
              /\ log' = out.log
              /\ pc' = IF Raised(out.result) THEN "process_raised" ELSE "processed"
    /\ UNCHANGED <<cbId, db, relatives, sets, containers>>

NextQueue ==
    \/ CreateQueueOutData
    \/ SaveToJson
    \/ LoadJson
    \/ CreateQueueInData
    \/ ProcessQueuedItem

SpecQueue == InitQueue /\ [][NextQueue]_vars

\* C3: for queue items whose documents hold _id and parent as database ids,
\* create_queue_out_data, JSON encode and decode, and create_queue_in_data
\* go through and give back the items, the two ids as database ids again.
C3_RoundTrip ==
    /\ pc # "raised"
    /\ pc = "queue_in_returned" =>
          /\ ret = arg
          /\ \A i \in DOMAIN ret :
                IsObjectId(ret[i].document._id) /\ IsObjectId(ret[i].document.parent)

HasNodes(entry) == "nodes" \in DOMAIN entry /\ entry.nodes # <<>>
AssignCalls == SelectSeq(log, LAMBDA c : c.call = "assign_look_by_version")

ShaderSets == {"sg1", "sg2"}
LookMembers == {SetToSeq(M) : M \in (SUBSET {<<"sg1">>, <<"sg2">>, <<"n1">>}) \ {{}}}
Assigned == {<<>>, <<<<"n2">>>>}      \* what a shader set is applied to

InitCleanup ==
    /\ pc = "remove_unused_looks"
    /\ cbId = [n \in Names |-> None]
    /\ arg = <<>>
    /\ ret = <<>>
    /\ db = NoDb
    /\ relatives = [n \in Names |-> <<>>]
    /\ \E n \in 0..MaxContainers :
          \E loader \in [1..n -> Loaders], members \in [1..n -> LookMembers],
             applied \in [ShaderSets -> Assigned] :
             /\ containers = [i \in 1..n |-> [objectName |-> ContainerNames[i],
                                              loader |-> loader[i]]]
             /\ sets = [c \in {ContainerNames[i] : i \in 1..n} \cup ShaderSets |->
                          IF c \in ShaderSets THEN applied[c]
                          ELSE members[CHOOSE i \in 1..n : ContainerNames[i] = c]]
    /\ log = <<>>

\* remove_unused_looks(); arg keeps the scene as the call found it
RemoveUnusedLooks ==
    /\ pc = "remove_unused_looks"
    /\ LET unused == unused_looks
       IN  /\ log' = removal_calls(unused, 1)
           /\ containers' = SelectSeq(containers,
                               LAMBDA c : \A i \in DOMAIN unused : unused[i] # c)
           /\ sets' = [n \in DOMAIN sets \ {unused[i].objectName : i \in DOMAIN unused}
                          |-> sets[n]]
    /\ arg' = [containers |-> containers, sets |-> sets]
    /\ pc' = "looks_removed"
    /\ UNCHANGED <<cbId, ret, db, relatives>>

NextCleanup == RemoveUnusedLooks

SpecCleanup == InitCleanup /\ [][NextCleanup]_vars

\* a look-loader container none of whose member sets has contents, in the
\* scene the call found
IsUnusedLook(c) ==
    /\ c.loader = "LookLoader"
    /\ \A m \in Range(arg.sets[c.objectName]) :
          m[1] \in ShaderSets => arg.sets[m[1]] = <<>>
RemoveCalls == SelectSeq(log, LAMBDA c : c.call = "api.remove")

\* C5: remove_unused_looks removes exactly the look-loader containers none
\* of whose member shader sets has contents (those without a member set
\* included), each exactly once; look containers with a non-empty member set
\* and containers of other loaders stay.
C5_ExactlyUnusedLooksRemoved ==
    pc = "looks_removed" =>
        /\ \A i \in DOMAIN arg.containers :
              Cardinality({j \in DOMAIN RemoveCalls :
                              RemoveCalls[j].container = arg.containers[i]})
                  = IF IsUnusedLook(arg.containers[i]) THEN 1 ELSE 0
        /\ \A j \in DOMAIN RemoveCalls :
              \E i \in DOMAIN arg.containers :
                 RemoveCalls[j].container = arg.containers[i]
        /\ containers = SelectSeq(arg.containers, LAMBDA c : ~IsUnusedLook(c))

\* one look whose only shader set is applied, one whose set is empty: only
\* the second is removed
C5_Witness ==
    /\ pc = "looks_removed"
    /\ Len(arg.containers) = 2
    /\ \A i \in DOMAIN arg.containers : arg.containers[i].loader = "LookLoader"
    /\ arg.sets["c1"] = <<<<"sg1">>>> /\ arg.sets["sg1"] # <<>>
    /\ arg.sets["c2"] = <<<<"sg2">>>> /\ arg.sets["sg2"] = <<>>
    /\ Len(containers) = 1
    /\ containers[1].objectName = "c1"

====
